---- MODULE Spec2Model ----
(***************************************************************************)
(* Model of the natural-language product search pipeline:                  *)
(*   LLMHandler.parse_query / _fallback_parse      (src/llm/handler.py)    *)
(*   ProductFilter.filter_products,                                        *)
(*   generate_recommendation_explanation           (src/inventory/filters.py) *)
(*   the search flow of main()                     (src/app.py)            *)
(*                                                                         *)
(* Text is a sequence of one-character strings.  Prices are in cents and   *)
(* ratings in tenths of a star, so 89.99 is 8999 and 4.5 is 45.            *)
(***************************************************************************)
EXTENDS Integers, Sequences, FiniteSets, TLC

VARIABLES df, user_query, response, criteria, error, filtered_products,
          explanation, pc, stats, products, search_history

vars == <<df, user_query, response, criteria, error, filtered_products,
          explanation, pc, stats, products, search_history>>

(***************************************************************************)
(* Bounds of the model.                                                    *)
(***************************************************************************)
MaxRows == 3
MaxWords == 3
MaxTokens == 3
MaxFields == 2

(***************************************************************************)
(* Python str operations.                                                  *)
(***************************************************************************)
UpperToLower ==
    [c \in {"A","B","C","D","E","F","G","H","I","J","K","L","M","N","O","P",
            "Q","R","S","T","U","V","W","X","Y","Z"} |->
       CASE c = "A" -> "a" [] c = "B" -> "b" [] c = "C" -> "c" [] c = "D" -> "d"
         [] c = "E" -> "e" [] c = "F" -> "f" [] c = "G" -> "g" [] c = "H" -> "h"
         [] c = "I" -> "i" [] c = "J" -> "j" [] c = "K" -> "k" [] c = "L" -> "l"
         [] c = "M" -> "m" [] c = "N" -> "n" [] c = "O" -> "o" [] c = "P" -> "p"
         [] c = "Q" -> "q" [] c = "R" -> "r" [] c = "S" -> "s" [] c = "T" -> "t"
         [] c = "U" -> "u" [] c = "V" -> "v" [] c = "W" -> "w" [] c = "X" -> "x"
         [] c = "Y" -> "y" [] c = "Z" -> "z"]

\* str.lower()
lower(s) ==
    [i \in 1..Len(s) |->
        IF s[i] \in DOMAIN UpperToLower THEN UpperToLower[s[i]] ELSE s[i]]

\* Python's `sub in s`: sub occurs in s as a literal substring.
Contains(s, sub) ==
    \E i \in 0..(Len(s) - Len(sub)) :
        \A j \in 1..Len(sub) : s[i + j] = sub[j]

(***************************************************************************)
(* Series.str.contains(pat, na=False) takes pat as a regular expression    *)
(* (regex=True is the default): it compiles pat and keeps the rows where   *)
(* re.search finds a match.  The patterns of the model are built from      *)
(* literal characters, "." (any character) and "(", which is never closed  *)
(* here and so makes re.compile raise re.error.                            *)
(***************************************************************************)
re_compiles(pat) == \A j \in 1..Len(pat) : pat[j] # "("

re_search(pat, s) ==
    \E i \in 0..(Len(s) - Len(pat)) :
        \A j \in 1..Len(pat) : pat[j] = "." \/ s[i + j] = pat[j]

(***************************************************************************)
(* JSON values as Python holds them after json.loads.  k is the type; s    *)
(* the text of a str; n the value of a number or bool (True is 1), or the  *)
(* number of elements of a list of strings.                                *)
(***************************************************************************)
JStr(s)  == [k |-> "str",  s |-> s,    n |-> 0]
JNum(n)  == [k |-> "num",  s |-> <<>>, n |-> n]
JBool(b) == [k |-> "bool", s |-> <<>>, n |-> IF b THEN 1 ELSE 0]
JList(n) == [k |-> "list", s |-> <<>>, n |-> n]
None     == [k |-> "null", s |-> <<>>, n |-> 0]

\* Python truth value, as `if criteria.get(key):` tests it.
Truthy(v) ==
    CASE v.k = "str"  -> v.s # <<>>
      [] v.k = "num"  -> v.n # 0
      [] v.k = "bool" -> v.n # 0
      [] v.k = "list" -> v.n # 0
      [] v.k = "null" -> FALSE

\* dict.get(key): the value, or None when the key is absent.
Get(c, key) == IF key \in DOMAIN c THEN c[key] ELSE None

EmptyCriteria == <<>>

(***************************************************************************)
(* The catalog (self.df): a sequence of rows; a row's position is its      *)
(* DataFrame index label, which filtering and sorting keep.  The columns   *)
(* name, image_url and description are carried along and never read by     *)
(* the operations below.  A DataFrame derived from the catalog is the      *)
(* sequence of the index labels of its rows.                               *)
(***************************************************************************)
Row(cat, col, price, rating) ==
    [category |-> cat, color |-> col, price |-> price, rating |-> rating]

\* self.df.copy()
load_products(frame) == [i \in 1..Len(frame) |-> i]

\* The outcome of a call: the exception it raised ("none" if it returned)
\* and the rows of the DataFrame it returned.
Returned(rows) == [exc |-> "none", rows |-> rows]
Raised(e) == [exc |-> e, rows |-> <<>>]

\* filtered_df[ filtered_df[column].str.lower().str.contains(text, na=False) ]
\* with text = criteria[key].lower()
FilterByText(frame, rows, c, key) ==
    LET v == Get(c, key) IN
    IF ~Truthy(v) THEN Returned(rows)
    ELSE IF v.k # "str" THEN Raised("AttributeError")
    ELSE LET text == lower(v.s) IN
         IF ~re_compiles(text) THEN Raised("re.error")
         ELSE Returned(SelectSeq(rows,
                  LAMBDA i : re_search(text, lower(frame[i][key]))))

\* filtered_df[ filtered_df[column] <= criteria[key] ]   (upper = TRUE)
\* filtered_df[ filtered_df[column] >= criteria[key] ]   (upper = FALSE)
\* A numeric column compared with a str raises TypeError; with a list of
\* strings ValueError when the lengths differ and TypeError otherwise.
FilterByBound(frame, rows, c, key, column, upper) ==
    LET v == Get(c, key) IN
    IF ~Truthy(v) THEN Returned(rows)
    ELSE CASE v.k = "str" -> Raised("TypeError")
           [] v.k = "list" ->
                 Raised(IF v.n # Len(rows) THEN "ValueError" ELSE "TypeError")
           [] v.k \in {"num", "bool"} ->
                 Returned(SelectSeq(rows,
                     LAMBDA i : IF upper THEN frame[i][column] <= v.n
                                         ELSE frame[i][column] >= v.n))

\* Variant: ascending=[False, False].
RankedBeforePriceDescending(frame, i, j) ==
    \/ frame[i].rating > frame[j].rating
    \/ frame[i].rating = frame[j].rating /\ frame[i].price > frame[j].price

\* The order of sort_values(['rating', 'price'], ascending=[False, True]).
RankedBefore(frame, i, j) ==
    \/ frame[i].rating > frame[j].rating
    \/ frame[i].rating = frame[j].rating /\ frame[i].price < frame[j].price

\* Variant: an unstable sort, which puts a row before the rows it ties with.
RECURSIVE InsertRankedUnstable(_, _, _)
InsertRankedUnstable(frame, sorted, i) ==
    IF sorted = <<>> THEN <<i>>
    ELSE IF ~RankedBefore(frame, Head(sorted), i) THEN <<i>> \o sorted
    ELSE <<Head(sorted)>> \o InsertRankedUnstable(frame, Tail(sorted), i)

\* Insert row i behind every row of `sorted` that it does not precede.
RECURSIVE InsertRanked(_, _, _)
InsertRanked(frame, sorted, i) ==
    IF sorted = <<>> THEN <<i>>
    ELSE IF RankedBefore(frame, i, Head(sorted)) THEN <<i>> \o sorted
    ELSE <<Head(sorted)>> \o InsertRanked(frame, Tail(sorted), i)

\* DataFrame.sort_values on two columns: a stable lexicographic sort.
RECURSIVE sort_values(_, _)
sort_values(frame, rows) ==
    IF rows = <<>> THEN <<>>
    ELSE InsertRanked(frame, sort_values(frame, SubSeq(rows, 1, Len(rows) - 1)),
                      rows[Len(rows)])

FilterByCategory(frame, rows, c) == FilterByText(frame, rows, c, "category")
FilterByColor(frame, rows, c) == FilterByText(frame, rows, c, "color")
FilterByPriceMax(frame, rows, c) ==
    FilterByBound(frame, rows, c, "price_max", "price", TRUE)
FilterByPriceMin(frame, rows, c) ==
    FilterByBound(frame, rows, c, "price_min", "price", FALSE)
\* Variant: the rating bound applied to self.df, not to filtered_df.
FilterByRatingMinOfCatalog(frame, rows, c) ==
    IF Truthy(Get(c, "rating_min"))
    THEN FilterByBound(frame, load_products(frame), c, "rating_min", "rating",
                       FALSE)
    ELSE Returned(rows)

FilterByRatingMin(frame, rows, c) ==
    FilterByBound(frame, rows, c, "rating_min", "rating", FALSE)
SortStep(frame, rows) == Returned(sort_values(frame, rows))

\* ProductFilter.filter_products: the statements in order; an exception ends
\* the function.
filter_products(frame, c) ==
    LET r1 == FilterByCategory(frame, load_products(frame), c)
        r2 == IF r1.exc # "none" THEN r1 ELSE FilterByColor(frame, r1.rows, c)
        r3 == IF r2.exc # "none" THEN r2 ELSE FilterByPriceMax(frame, r2.rows, c)
        r4 == IF r3.exc # "none" THEN r3 ELSE FilterByPriceMin(frame, r3.rows, c)
        r5 == IF r4.exc # "none" THEN r4 ELSE FilterByRatingMin(frame, r4.rows, c)
    IN  IF r5.exc # "none" THEN r5 ELSE SortStep(frame, r5.rows)

\* Variant: the catalog itself narrowed and sorted (self.df assigned, or
\* sort_values(inplace=True) on self.df without the copy).
CatalogAfterFilterInPlace(frame, c) ==
    LET result == filter_products(frame, c) IN
    IF result.exc = "none"
    THEN [i \in 1..Len(result.rows) |-> frame[result.rows[i]]]
    ELSE frame

\* What filter_products leaves in self.df: it works on self.df.copy()
\* and rebinds only the local filtered_df, so the catalog is as before.
CatalogAfterFilter(frame, c) == frame

(***************************************************************************)
(* ProductFilter.get_product_stats.  A float is a number or NaN (min, max  *)
(* and mean of an empty column); a mean is kept as the sum and the count   *)
(* it is the quotient of.                                                  *)
(***************************************************************************)
Number(v) == [nan |-> FALSE, v |-> v]
NaN == [nan |-> TRUE, v |-> 0]

\* Series.unique().tolist(): the distinct values in order of first appearance
RECURSIVE unique(_)
unique(values) ==
    IF values = <<>> THEN <<>>
    ELSE LET before == unique(SubSeq(values, 1, Len(values) - 1))
             v == values[Len(values)]
         IN  IF \E i \in 1..Len(before) : before[i] = v THEN before
             ELSE Append(before, v)

Column(frame, column) == [i \in 1..Len(frame) |-> frame[i][column]]

RECURSIVE Sum(_)
Sum(values) == IF values = <<>> THEN 0 ELSE Head(values) + Sum(Tail(values))

\* Series.min()
min(values) ==
    IF values = <<>> THEN NaN
    ELSE Number(CHOOSE m \in {values[i] : i \in 1..Len(values)} :
                    \A i \in 1..Len(values) : m <= values[i])

\* Series.max()
max(values) ==
    IF values = <<>> THEN NaN
    ELSE Number(CHOOSE m \in {values[i] : i \in 1..Len(values)} :
                    \A i \in 1..Len(values) : m >= values[i])

\* Series.mean()
mean(values) == [sum |-> Sum(values), count |-> Len(values)]

get_product_stats(frame) ==
    [total_products |-> Len(frame),
     categories |-> unique(Column(frame, "category")),
     colors |-> unique(Column(frame, "color")),
     price_range |-> [min |-> min(Column(frame, "price")),
                      max |-> max(Column(frame, "price")),
                      avg |-> mean(Column(frame, "price"))],
     avg_rating |-> mean(Column(frame, "rating"))]

\* No statistics computed yet.
NoStats == [total_products |-> -1]

(***************************************************************************)
(* generate_recommendation_explanation.  The returned string is modelled   *)
(* as the sequence of the pieces that are concatenated to form it.         *)
(***************************************************************************)
NoProductsMessage ==
    "No products found matching your criteria. Try adjusting your search terms."

RECURSIVE Concat(_)
Concat(s) == IF s = <<>> THEN "" ELSE Head(s) \o Concat(Tail(s))

\* str(value) inside an f-string (numbers print in the model's units).
ValueText(v) ==
    CASE v.k = "str"  -> Concat(v.s)
      [] v.k = "num"  -> ToString(v.n)
      [] v.k = "bool" -> IF v.n = 1 THEN "True" ELSE "False"
      [] v.k = "list" -> "[...]"
      [] v.k = "null" -> "None"

\* f"{x:.2f}" of an amount held in cents
Money(cents) ==
    ToString(cents \div 100) \o "." \o
    (IF cents % 100 < 10 THEN "0" ELSE "") \o ToString(cents % 100)

RECURSIVE SumOf(_, _, _)
SumOf(frame, rows, column) ==
    IF rows = <<>> THEN 0
    ELSE frame[Head(rows)][column] + SumOf(frame, Tail(rows), column)

ColumnMin(frame, rows, column) ==
    CHOOSE m \in {frame[rows[i]][column] : i \in 1..Len(rows)} :
        \A i \in 1..Len(rows) : m <= frame[rows[i]][column]

ColumnMax(frame, rows, column) ==
    CHOOSE m \in {frame[rows[i]][column] : i \in 1..Len(rows)} :
        \A i \in 1..Len(rows) : m >= frame[rows[i]][column]

\* " ".join(parts) and ". ".join(parts), as sequences of pieces
RECURSIVE Join(_, _)
Join(parts, sep) ==
    IF parts = <<>> THEN <<>>
    ELSE IF Len(parts) = 1 THEN parts
    ELSE <<Head(parts), sep>> \o Join(Tail(parts), sep)

\* Variant: the plural noun for every count.
CountPartAlwaysPlural(count) == "Found " \o ToString(count) \o " items"

\* f"Found {count} item{'s' if count != 1 else ''}"
CountPart(count) ==
    "Found " \o ToString(count) \o " item" \o (IF count # 1 THEN "s" ELSE "")

\* The clauses for the criteria that are mentioned, in their fixed order.
CriteriaMentioned(c) ==
    (IF Truthy(Get(c, "category"))
        THEN <<"in " \o ValueText(c["category"])>> ELSE <<>>) \o
    (IF Truthy(Get(c, "color"))
        THEN <<"in " \o ValueText(c["color"])>> ELSE <<>>) \o
    (IF Truthy(Get(c, "price_max"))
        THEN <<"under $" \o ValueText(c["price_max"])>> ELSE <<>>) \o
    (IF Truthy(Get(c, "rating_min"))
        THEN <<"with rating >= " \o ValueText(c["rating_min"])>> ELSE <<>>)

\* The quality note: the mean rating against 4.5 and 4.0 (tenths: 45, 40).
QualityPart(frame, rows) ==
    LET total == SumOf(frame, rows, "rating") IN
    IF total >= 45 * Len(rows) THEN <<"* All items have excellent ratings">>
    ELSE IF total >= 40 * Len(rows)
         THEN <<"* Items have good to excellent ratings">>
    ELSE <<>>

PricePart(frame, rows) ==
    IF Len(rows) > 1
    THEN <<"* Price range: $" \o Money(ColumnMin(frame, rows, "price")) \o
           " - $" \o Money(ColumnMax(frame, rows, "price"))>>
    ELSE <<>>

\* The explanation of a result that holds rows.
ExplainRows(frame, rows, c) ==
    LET mentioned == CriteriaMentioned(c)
        explanation_parts ==
            <<CountPart(Len(rows))>> \o
            (IF mentioned # <<>>
                THEN <<Concat(Join(mentioned, " "))>> ELSE <<>>) \o
            QualityPart(frame, rows) \o
            PricePart(frame, rows)
    IN  Join(explanation_parts, ". ") \o <<".">>

\* Variant: no test for an empty result.
ExplainWithoutEmptyTest(frame, rows, c) == ExplainRows(frame, rows, c)

generate_recommendation_explanation(frame, rows, c) ==
    IF Len(rows) = 0 THEN <<NoProductsMessage>>
    ELSE ExplainRows(frame, rows, c)

(***************************************************************************)
(* LLMHandler._fallback_parse: keyword and regex extraction.               *)
(***************************************************************************)
colors ==
    << <<"r","e","d">>,
       <<"b","l","u","e">>,
       <<"g","r","e","e","n">>,
       <<"b","l","a","c","k">>,
       <<"w","h","i","t","e">>,
       <<"p","i","n","k">>,
       <<"y","e","l","l","o","w">>,
       <<"p","u","r","p","l","e">>,
       <<"o","r","a","n","g","e">>,
       <<"b","r","o","w","n">>,
       <<"g","r","e","y">>,
       <<"g","r","a","y">>,
       <<"n","a","v","y">> >>

categories ==
    << [category |-> <<"d","r","e","s","s">>,
        keywords |-> << <<"d","r","e","s","s">>, <<"g","o","w","n">> >>],
       [category |-> <<"j","e","a","n","s">>,
        keywords |-> << <<"j","e","a","n","s">>, <<"d","e","n","i","m">> >>],
       [category |-> <<"s","h","i","r","t">>,
        keywords |-> << <<"s","h","i","r","t">>, <<"b","l","o","u","s","e">>, <<"t","o","p">> >>],
       [category |-> <<"s","h","o","e","s">>,
        keywords |-> << <<"s","h","o","e","s">>, <<"s","n","e","a","k","e","r","s">>, <<"b","o","o","t","s">> >>],
       [category |-> <<"j","a","c","k","e","t">>,
        keywords |-> << <<"j","a","c","k","e","t">>, <<"b","l","a","z","e","r">>, <<"c","o","a","t">> >>] >>

Digits == {"0","1","2","3","4","5","6","7","8","9"}

DigitValue(ch) ==
    CASE ch = "0" -> 0 [] ch = "1" -> 1 [] ch = "2" -> 2 [] ch = "3" -> 3
      [] ch = "4" -> 4 [] ch = "5" -> 5 [] ch = "6" -> 6 [] ch = "7" -> 7
      [] ch = "8" -> 8 [] ch = "9" -> 9

\* The value of a run of decimal digits.
RECURSIVE DigitsValue(_)
DigitsValue(run) ==
    IF run = <<>> THEN 0
    ELSE 10 * DigitsValue(SubSeq(run, 1, Len(run) - 1)) + DigitValue(run[Len(run)])

\* re.search(r'\$?(\d+)', query).group(1): the leftmost maximal digit run,
\* <<>> when the query holds no digit (the match is None).
price_match(query) ==
    IF \A i \in 1..Len(query) : query[i] \notin Digits THEN <<>>
    ELSE LET first == CHOOSE i \in 1..Len(query) :
                          /\ query[i] \in Digits
                          /\ \A j \in 1..(i - 1) : query[j] \notin Digits
             last == CHOOSE i \in first..Len(query) :
                          /\ \A j \in first..i : query[j] \in Digits
                          /\ (i = Len(query) \/ query[i + 1] \notin Digits)
         IN  SubSeq(query, first, last)

\* float(text) of a run of digits, a dollar amount, in the model's cents
float(run) == 100 * DigitsValue(run)

\* for color in colors: if color in query_lower: criteria['color'] = color; break
ColorCriteria(query_lower) ==
    IF \E i \in 1..Len(colors) : Contains(query_lower, colors[i])
    THEN LET i == CHOOSE i \in 1..Len(colors) :
                      /\ Contains(query_lower, colors[i])
                      /\ \A j \in 1..(i - 1) : ~Contains(query_lower, colors[j])
         IN  [color |-> JStr(colors[i])]
    ELSE <<>>

AnyKeyword(query_lower, keywords) ==
    \E k \in 1..Len(keywords) : Contains(query_lower, keywords[k])

\* for category, keywords in categories.items(): if any(...): ...; break
CategoryCriteria(query_lower) ==
    IF \E i \in 1..Len(categories) : AnyKeyword(query_lower, categories[i].keywords)
    THEN LET i == CHOOSE i \in 1..Len(categories) :
                      /\ AnyKeyword(query_lower, categories[i].keywords)
                      /\ \A j \in 1..(i - 1) :
                            ~AnyKeyword(query_lower, categories[j].keywords)
         IN  [category |-> JStr(categories[i].category)]
    ELSE <<>>

W_under == <<"u","n","d","e","r">>
W_below == <<"b","e","l","o","w">>
W_less_than == <<"l","e","s","s"," ","t","h","a","n">>
W_over == <<"o","v","e","r">>
W_above == <<"a","b","o","v","e">>
W_more_than == <<"m","o","r","e"," ","t","h","a","n">>

\* Variant: the "over" words tested before the "under" words.
PriceCriteriaOverFirst(query, query_lower) ==
    LET run == price_match(query) IN
    IF run = <<>> THEN <<>>
    ELSE LET price == JNum(float(run)) IN
         IF \/ Contains(query_lower, W_over)
            \/ Contains(query_lower, W_above)
            \/ Contains(query_lower, W_more_than)
         THEN [price_min |-> price]
         ELSE [price_max |-> price]

PriceCriteria(query, query_lower) ==
    LET run == price_match(query) IN
    IF run = <<>> THEN <<>>
    ELSE LET price == JNum(float(run)) IN
         IF \/ Contains(query_lower, W_under)
            \/ Contains(query_lower, W_below)
            \/ Contains(query_lower, W_less_than)
         THEN [price_max |-> price]
         ELSE IF \/ Contains(query_lower, W_over)
                 \/ Contains(query_lower, W_above)
                 \/ Contains(query_lower, W_more_than)
         THEN [price_min |-> price]
         ELSE [price_max |-> price]

fallback_parse(query) ==
    LET query_lower == lower(query) IN
    ColorCriteria(query_lower) @@ CategoryCriteria(query_lower)
        @@ PriceCriteria(query, query_lower)

(***************************************************************************)
(* The completion's answer.  status is "ok" when the call returned a       *)
(* message with text, and otherwise says how reading it failed:            *)
(* "APIError" (create() raised: network, auth, quota, timeout),            *)
(* "NoChoices" (response.choices[0] raises IndexError), "NoContent"        *)
(* (content is None, .strip() raises AttributeError).  The text is a       *)
(* sequence of lexical tokens: "{", "}", the members of a JSON object      *)
(* (c: the mapping they denote), a whole JSON array, a JSON scalar, or     *)
(* prose without braces.                                                   *)
(***************************************************************************)
Tok(t) == [t |-> t, c |-> <<>>]
LBrace == Tok("{")
RBrace == Tok("}")
ArrayTok == Tok("array")
ScalarTok == Tok("scalar")
Prose == Tok("prose")
Members(c) == [t |-> "members", c |-> c]

Failure(status) == [status |-> status, text |-> <<>>]
Answer(text) == [status |-> "ok", text |-> text]

\* What json.loads yields: an exception, or a value that is a dict or not.
Loaded(isdict, value) == [exc |-> "none", isdict |-> isdict, value |-> value]
DecodeError == [exc |-> "JSONDecodeError", isdict |-> FALSE, value |-> <<>>]

\* json.loads(text)
json_loads(text) ==
    CASE text = <<LBrace, RBrace>> -> Loaded(TRUE, <<>>)
      [] Len(text) = 3 /\ text[1] = LBrace /\ text[2].t = "members"
            /\ text[3] = RBrace -> Loaded(TRUE, text[2].c)
      [] text = <<ArrayTok>> -> Loaded(FALSE, <<>>)
      [] text = <<ScalarTok>> -> Loaded(FALSE, <<>>)
      [] OTHER -> DecodeError

\* re.search(r'\{.*\}', text, re.DOTALL): from the first "{" to the last "}"
\* behind it; <<>> when there is no match.
json_match(text) ==
    IF \E i, j \in 1..Len(text) : i < j /\ text[i] = LBrace /\ text[j] = RBrace
    THEN LET i == CHOOSE i \in 1..Len(text) :
                      /\ text[i] = LBrace
                      /\ \A k \in 1..(i - 1) : text[k] # LBrace
             j == CHOOSE j \in 1..Len(text) :
                      /\ text[j] = RBrace
                      /\ \A k \in (j + 1)..Len(text) : text[k] # RBrace
         IN  SubSeq(text, i, j)
    ELSE <<>>

\* The outcome of a block: the exception it raised or the value it returned.
Value(v) == [exc |-> "none", value |-> v]
Throw(e) == [exc |-> e, value |-> <<>>]

\* Variant: json_match.group() without the `if json_match` test, so that a
\* text without a match raises AttributeError.
ParseResultTextUnguarded(result_text) ==
    LET first == json_loads(result_text) IN
    IF first.exc = "none"
    THEN Value(IF first.isdict THEN first.value ELSE EmptyCriteria)
    ELSE LET m == json_match(result_text) IN
         IF m # <<>>
         THEN LET second == json_loads(m) IN
              IF second.exc = "none" THEN Value(second.value)
              ELSE Throw(second.exc)
         ELSE Throw("AttributeError")

\* The inner try/except of parse_query, on the text of the answer.
ParseResultText(result_text) ==
    LET first == json_loads(result_text) IN
    IF first.exc = "none"
    THEN Value(IF first.isdict THEN first.value ELSE EmptyCriteria)
    ELSE LET m == json_match(result_text) IN
         IF m # <<>>
         THEN LET second == json_loads(m) IN
              IF second.exc = "none" THEN Value(second.value)
              ELSE Throw(second.exc)
         ELSE Value(EmptyCriteria)

\* The body of the outer try of parse_query.
TryBody(resp) ==
    CASE resp.status = "APIError"  -> Throw("APIError")
      [] resp.status = "NoChoices" -> Throw("IndexError")
      [] resp.status = "NoContent" -> Throw("AttributeError")
      [] resp.status = "ok"        -> ParseResultText(resp.text)

\* Variant: `except json.JSONDecodeError` in place of `except Exception`.
ExceptJSONDecodeError(e) == e = "JSONDecodeError"

\* `except Exception` catches every exception the body raises.
ExceptException(e) == e # "none"

\* LLMHandler.parse_query
parse_query(query, resp) ==
    LET body == TryBody(resp) IN
    IF ExceptException(body.exc) THEN Value(fallback_parse(query))
    ELSE body

(***************************************************************************)
(* Input sets.                                                             *)
(***************************************************************************)
W_dress == <<"d","r","e","s","s">>
W_jeans == <<"j","e","a","n","s">>
W_jacket == <<"j","a","c","k","e","t">>
W_red == <<"r","e","d">>
W_blue == <<"b","l","u","e">>
W_black == <<"b","l","a","c","k">>

\* The catalog of src/tests/test_filters.py (setUp).
TestCatalog ==
    << Row(W_dress, W_red, 15000, 45),
       Row(W_jeans, W_blue, 8999, 42),
       Row(W_jacket, W_black, 29999, 48) >>

UpperCaseRow ==
    Row(<<"D","r","e","s","s","e","s">>, <<"R","e","d">>, 8999, 45)

RowSet == { TestCatalog[1], TestCatalog[2], UpperCaseRow }

Catalogs == UNION { [1..n -> RowSet] : n \in 0..MaxRows } \cup {TestCatalog}

\* Criteria as the data model types them: text for category and color,
\* non-negative numbers for the bounds.
CriteriaValues(key) ==
    CASE key = "category" ->
            { JStr(W_dress), JStr(<<"J","E">>), JStr(<<".">>), JStr(<<"(">>), JStr(<<>>) }
      [] key = "color" -> { JStr(W_red), JStr(<<"b","l">>) }
      [] key = "price_max" -> { JNum(0), JNum(10000), JNum(20000) }
      [] key = "price_min" -> { JNum(0), JNum(10000) }
      [] key = "rating_min" -> { JNum(0), JNum(45) }

CriteriaKeys == {"category", "color", "price_max", "price_min", "rating_min"}

TypedCriteria ==
    UNION { { c \in [K -> UNION { CriteriaValues(k) : k \in K }] :
                \A k \in K : c[k] \in CriteriaValues(k) } :
            K \in SUBSET CriteriaKeys }

\* The JSON objects a completion may hold: known and unknown keys, values of
\* any JSON type, at most MaxFields members.
ObjectValues(key) ==
    CASE key \in {"category", "color"} ->
            { JStr(W_dress), JStr(<<"(">>), JStr(<<>>), JNum(5), None, JList(1) }
      [] key \in {"price_max", "price_min"} ->
            { JNum(0), JNum(20000), JStr(<<"c","h","e","a","p">>), None, JBool(TRUE), JList(1) }
      [] key = "rating_min" ->
            { JNum(45), JStr(<<"g","o","o","d">>), None }
      [] key = "size" -> { JStr(<<"M">>), JNum(1) }

ObjectKeys == CriteriaKeys \cup {"size"}

LLMObjects ==
    UNION { { c \in [K -> UNION { ObjectValues(k) : k \in K }] :
                \A k \in K : c[k] \in ObjectValues(k) } :
            K \in { S \in SUBSET ObjectKeys : Cardinality(S) <= MaxFields } }

Vocabulary ==
    { <<"r","e","d">>, <<"N","a","v","y">>, <<"g","o","w","n">>, <<"b","o","o","t","s">>, <<"u","n","d","e","r">>, <<"O","v","e","r">>,
      <<"l","e","s","s"," ","t","h","a","n">>, <<"a","b","o","v","e">>, <<"$","2","0","0">>, <<"5","0">> }

RECURSIVE JoinWords(_)
JoinWords(ws) ==
    IF ws = <<>> THEN <<>>
    ELSE IF Len(ws) = 1 THEN ws[1]
    ELSE ws[1] \o <<" ">> \o JoinWords(Tail(ws))

Queries(n) == { JoinWords(ws) : ws \in UNION { [1..k -> Vocabulary] : k \in 0..n } }

\* "Show me red dresses under $200"
Scenario5Query ==
    <<"S","h","o","w"," ","m","e"," ",
       "r","e","d"," ","d","r","e","s","s","e","s"," ",
       "u","n","d","e","r"," ","$","2","0","0">>

SampleObject == [category |-> JStr(W_dress), price_max |-> JNum(20000)]

Tokens == { LBrace, RBrace, ArrayTok, ScalarTok, Prose, Members(SampleObject) }

Texts == UNION { [1..n -> Tokens] : n \in 0..MaxTokens }

Failures == { Failure("APIError"), Failure("NoChoices"), Failure("NoContent") }

SingleFieldObjects == { c \in LLMObjects : Cardinality(DOMAIN c) <= 1 }

AppCatalogs == { TestCatalog, <<>>, <<TestCatalog[1], TestCatalog[1]>> }

AppQueries == (Queries(1) \cup {Scenario5Query}) \ {<<>>}

AppResponses ==
    Failures
    \cup { Answer(text) : text \in Texts }
    \cup { Answer(<<LBrace, Members(c), RBrace>>) : c \in LLMObjects \ {<<>>} }

ParseQueries == Queries(1) \cup {Scenario5Query}

ParseResponses ==
    Failures
    \cup { Answer(text) : text \in Texts }
    \cup { Answer(<<Prose, LBrace, Members(SampleObject), RBrace, Prose>>),
           Answer(<<LBrace, RBrace, Prose, LBrace, RBrace>>) }

(***************************************************************************)
(* State.  df is the catalog ProductFilter holds; the other variables hold *)
(* the inputs and results of the latest call.  error is the exception the  *)
(* call raised ("none" if it returned).                                    *)
(***************************************************************************)
NoResponse == [status |-> "none", text |-> <<>>]

Blank ==
    /\ user_query = <<>>
    /\ response = NoResponse
    /\ criteria = EmptyCriteria
    /\ error = "none"
    /\ filtered_products = <<>>
    /\ explanation = <<>>
    /\ pc = "start"
    /\ stats = NoStats
    /\ products = <<>>
    /\ search_history = <<>>

\* user_query.strip() is not empty
NotBlank(q) == { i \in 1..Len(q) : q[i] # " " } # {}

\* The length st.session_state.search_history is cut to.
HistoryLimit == 5

InHistory(history, q) == \E i \in 1..Len(history) : history[i] = q

\* Variant: the query inserted without the `not in` test.
AddToHistoryUntested(history, q) ==
    LET inserted == <<q>> \o history IN
    IF Len(inserted) > HistoryLimit THEN SubSeq(inserted, 1, HistoryLimit)
    ELSE inserted

\* "Add to search history" of main()
AddToHistory(history, q) ==
    IF ~InHistory(history, q)
    THEN LET inserted == <<q>> \o history IN
         IF Len(inserted) > HistoryLimit THEN SubSeq(inserted, 1, HistoryLimit)
         ELSE inserted
    ELSE history

(***************************************************************************)
(* main() of src/app.py on a run with a query in the search box: show the  *)
(* statistics, interpret the query, filter the catalog, store the results, *)
(* record the query and explain the results.  An exception is caught and   *)
(* reported (st.error) and ends the run.                                   *)
(***************************************************************************)
SearchStep(q, r) ==
    /\ NotBlank(q)
    /\ stats' = get_product_stats(df)
    /\ LET parsed == parse_query(q, r)
           result == IF parsed.exc = "none"
                     THEN filter_products(df, parsed.value)
                     ELSE Raised(parsed.exc)
       IN  /\ user_query' = q
           /\ response' = r
           /\ criteria' = parsed.value
           /\ error' = result.exc
           /\ filtered_products' = result.rows
           /\ df' = CatalogAfterFilter(df, parsed.value)
           /\ search_history' =
                 IF result.exc = "none" THEN AddToHistory(search_history, q)
                 ELSE search_history
           /\ explanation' =
                 IF result.exc = "none"
                 THEN generate_recommendation_explanation(df, result.rows,
                                                          parsed.value)
                 ELSE <<>>
    /\ pc' = "searched"
    /\ UNCHANGED products

Search(q, r) ==
    /\ pc = "start"
    /\ SearchStep(q, r)

\* A new browser session: init_session_state starts from empty state.
NewSession ==
    /\ pc = "searched"
    /\ user_query' = <<>>
    /\ response' = NoResponse
    /\ criteria' = EmptyCriteria
    /\ error' = "none"
    /\ filtered_products' = <<>>
    /\ explanation' = <<>>
    /\ pc' = "start"
    /\ stats' = NoStats
    /\ products' = <<>>
    /\ search_history' = <<>>
    /\ UNCHANGED df

Init == df \in AppCatalogs /\ Blank

Next ==
    \/ \E q \in AppQueries, r \in AppResponses : Search(q, r)
    \/ NewSession

Spec == Init /\ [][Next]_vars

(***************************************************************************)
(* The searches of one session, one after the other.                       *)
(***************************************************************************)
HistoryQueries == { W_red, W_blue, W_black, W_dress, W_jeans, W_jacket }

\* A failed call (the fallback extracts the criteria), and an answer whose
\* criteria make filter_products raise.
HistoryResponses ==
    { Failure("APIError"),
      Answer(<<LBrace, Members([category |-> JNum(5)]), RBrace>>) }

InitHistory == df = TestCatalog /\ Blank

NextHistory ==
    \E q \in HistoryQueries, r \in HistoryResponses : SearchStep(q, r)

SpecHistory == InitHistory /\ [][NextHistory]_vars

(***************************************************************************)
(* The filter and the explainer called directly, as the unit tests do.     *)
(***************************************************************************)
FilterStep(c) ==
    /\ LET result == filter_products(df, c)
       IN  /\ criteria' = c
           /\ error' = result.exc
           /\ filtered_products' = result.rows
           /\ df' = CatalogAfterFilter(df, c)
    /\ explanation' = <<>>
    /\ pc' = "filtered"
    /\ UNCHANGED <<user_query, response, stats, products, search_history>>

FilterCall(c) ==
    /\ pc = "start"
    /\ FilterStep(c)

\* The explanation of the rows that filter_products returned.
ExplainStep ==
    /\ error = "none"
    /\ explanation' =
          generate_recommendation_explanation(df, filtered_products, criteria)
    /\ pc' = "explained"
    /\ UNCHANGED <<df, user_query, response, criteria, error, filtered_products,
                   stats, products, search_history>>

ExplainCall ==
    /\ pc = "filtered"
    /\ ExplainStep

\* The explanation of an empty DataFrame, under any criteria.
ExplainEmpty(c) ==
    /\ pc = "start"
    /\ criteria' = c
    /\ error' = "none"
    /\ filtered_products' = <<>>
    /\ explanation' = generate_recommendation_explanation(df, <<>>, c)
    /\ pc' = "explained"
    /\ UNCHANGED <<df, user_query, response, stats, products, search_history>>

\* The next test starts from a fresh fixture (setUp).
SetUp ==
    /\ pc \in {"filtered", "explained", "parsed", "fallback"}
    /\ user_query' = <<>>
    /\ response' = NoResponse
    /\ criteria' = EmptyCriteria
    /\ error' = "none"
    /\ filtered_products' = <<>>
    /\ explanation' = <<>>
    /\ pc' = "start"
    /\ stats' = NoStats
    /\ products' = <<>>
    /\ search_history' = <<>>
    /\ UNCHANGED df

InitFilter == df \in Catalogs /\ Blank

NextFilter ==
    \/ \E c \in TypedCriteria : FilterCall(c)
    \/ ExplainCall
    \/ \E c \in SingleFieldObjects : ExplainEmpty(c)
    \/ SetUp

SpecFilter == InitFilter /\ [][NextFilter]_vars

(***************************************************************************)
(* The methods of one ProductFilter called in any order, any number of     *)
(* times.  load_products and get_product_stats read self.df and assign     *)
(* nothing to it.                                                          *)
(***************************************************************************)
LoadProductsCall ==
    /\ products' = load_products(df)
    /\ pc' = "loaded"
    /\ UNCHANGED <<df, user_query, response, criteria, error, filtered_products,
                   explanation, stats, search_history>>

GetProductStatsCall ==
    /\ stats' = get_product_stats(df)
    /\ pc' = "stats"
    /\ UNCHANGED <<df, user_query, response, criteria, error, filtered_products,
                   explanation, products, search_history>>

CatalogCriteria ==
    { EmptyCriteria,
      [category |-> JStr(W_dress)],
      [category |-> JStr(<<"(">>)],
      [color |-> JStr(W_blue)],
      [price_max |-> JNum(10000)],
      [price_max |-> JNum(20000), rating_min |-> JNum(45)],
      [category |-> JStr(W_jacket), color |-> JStr(W_red)] }

InitCatalog == df \in Catalogs /\ Blank

NextCatalog ==
    \/ \E c \in CatalogCriteria : FilterStep(c)
    \/ ExplainStep
    \/ LoadProductsCall
    \/ GetProductStatsCall

SpecCatalog == InitCatalog /\ [][NextCatalog]_vars

(***************************************************************************)
(* The interpreter called directly.                                        *)
(***************************************************************************)
ParseQueryCall(q, r) ==
    /\ pc = "start"
    /\ LET parsed == parse_query(q, r)
       IN  /\ criteria' = parsed.value
           /\ error' = parsed.exc
    /\ user_query' = q
    /\ response' = r
    /\ pc' = "parsed"
    /\ UNCHANGED <<df, filtered_products, explanation, stats, products,
                   search_history>>

FallbackCall(q) ==
    /\ pc = "start"
    /\ criteria' = fallback_parse(q)
    /\ error' = "none"
    /\ user_query' = q
    /\ response' = NoResponse
    /\ pc' = "fallback"
    /\ UNCHANGED <<df, filtered_products, explanation, stats, products,
                   search_history>>

InitParse == df = TestCatalog /\ Blank

NextParse ==
    \/ \E q \in ParseQueries, r \in ParseResponses : ParseQueryCall(q, r)
    \/ \E q \in Queries(MaxWords) \cup {Scenario5Query} : FallbackCall(q)
    \/ SetUp

SpecParse == InitParse /\ [][NextParse]_vars

(***************************************************************************)
(* Properties.                                                             *)
(***************************************************************************)
RowsOf(rows) == { rows[i] : i \in 1..Len(rows) }

Scenario5Criteria ==
    [color |-> JStr(W_red), category |-> JStr(W_dress), price_max |-> JNum(20000)]

\* C1: when the completion call fails (the call raises, or reading the
\* response raises), parse_query raises nothing and returns the criteria
\* that _fallback_parse gives for the same query.
C1_FailedCallFallsBack ==
    (pc = "parsed" /\ response.status \in {"APIError", "NoChoices", "NoContent"})
        => (error = "none" /\ criteria = fallback_parse(user_query))

C1_Witness ==
    /\ pc = "parsed"
    /\ response.status = "APIError"
    /\ user_query = Scenario5Query
    /\ error = "none"
    /\ criteria = Scenario5Criteria

\* A {...} span: a "{" with a "}" somewhere behind it.
HasBraceSpan(text) ==
    \E i, j \in 1..Len(text) : i < j /\ text[i] = LBrace /\ text[j] = RBrace

IsJson(text) == json_loads(text).exc = "none"

\* The text is JSON, but an array or a scalar.
JsonNotObject(text) == text = <<ArrayTok>> \/ text = <<ScalarTok>>

\* The text is not JSON and no JSON object can be taken out of it.
NoObjectLocated(text) ==
    /\ ~IsJson(text)
    /\ \/ ~HasBraceSpan(text)
       \/ ~IsJson(json_match(text))

C3_PriceBounds ==
    (pc = "filtered" /\ error = "none")
        => /\ "price_max" \in DOMAIN criteria
                => \A i \in RowsOf(filtered_products) :
                       df[i].price <= criteria["price_max"].n
           /\ "price_min" \in DOMAIN criteria
                => \A i \in RowsOf(filtered_products) :
                       df[i].price >= criteria["price_min"].n

\* C4: whatever criteria parse_query returns, filter_products and
\* generate_recommendation_explanation complete without raising.
C4_NeverRaises == pc = "searched" => error = "none"

Without(c, key) == [k \in (DOMAIN c) \ {key} |-> c[k]]

\* C5: adding a constraint on one more field narrows the result: the rows
\* for the criteria are among the rows for the criteria without that field.
C5_Monotone ==
    (pc = "filtered" /\ error = "none")
        => \A key \in DOMAIN criteria :
              LET fewer == filter_products(df, Without(criteria, key))
              IN  /\ fewer.exc = "none"
                  /\ RowsOf(filtered_products) \subseteq RowsOf(fewer.rows)

C5_Witness ==
    /\ pc = "filtered"
    /\ df = TestCatalog
    /\ criteria = [price_max |-> JNum(20000), rating_min |-> JNum(45)]
    /\ filtered_products = <<1>>
    /\ filter_products(df, [price_max |-> JNum(20000)]).rows = <<1, 2>>

\* rows i, j of the catalog in ranking order: rating descending, then price
\* ascending
InRankOrder(i, j) ==
    \/ df[i].rating > df[j].rating
    \/ df[i].rating = df[j].rating /\ df[i].price <= df[j].price

\* C6: with no field set, filter_products returns every catalog row exactly
\* once, by rating descending and then price ascending.
C6_EmptyCriteriaReturnsAll ==
    (pc = "filtered" /\ criteria = EmptyCriteria)
        => /\ error = "none"
           /\ Len(filtered_products) = Len(df)
           /\ RowsOf(filtered_products) = 1..Len(df)
           /\ \A a, b \in 1..Len(filtered_products) :
                 a < b => InRankOrder(filtered_products[a], filtered_products[b])

C6_Witness ==
    /\ pc = "filtered"
    /\ criteria = EmptyCriteria
    /\ df = TestCatalog
    /\ filtered_products = <<3, 1, 2>>

\* C7: the returned rows are ordered by rating descending, then price
\* ascending, and rows equal in both keep their order of the catalog.
C7_RankedAndStable ==
    (pc = "filtered" /\ error = "none")
        => \A a, b \in 1..Len(filtered_products) :
              a < b =>
                 LET i == filtered_products[a]
                     j == filtered_products[b]
                 IN  \/ df[i].rating > df[j].rating
                     \/ /\ df[i].rating = df[j].rating
                        /\ df[i].price < df[j].price
                     \/ /\ df[i].rating = df[j].rating
                        /\ df[i].price = df[j].price
                        /\ i < j

C7_Witness ==
    /\ pc = "filtered"
    /\ df = <<TestCatalog[1], UpperCaseRow, TestCatalog[1]>>
    /\ criteria = [color |-> JStr(W_red)]
    /\ filtered_products = <<2, 1, 3>>

\* C8: with category = c as the only field, the result is exactly the rows
\* whose category, lowercased, contains c, lowercased, as a literal substring.
C8_CategoryLiteralSubstring ==
    (pc = "filtered" /\ DOMAIN criteria = {"category"})
        => /\ error = "none"
           /\ RowsOf(filtered_products) =
                 { i \in 1..Len(df) :
                      Contains(lower(df[i].category), lower(criteria["category"].s)) }

HasDigit(q) == \E i \in 1..Len(q) : q[i] \in Digits

\* [a, b] is the first run of digits of q
FirstDigitRun(q, a, b) ==
    /\ a <= b
    /\ \A i \in 1..(a - 1) : q[i] \notin Digits
    /\ \A i \in a..b : q[i] \in Digits
    /\ b = Len(q) \/ q[b + 1] \notin Digits

SaysUnder(q) ==
    \/ Contains(lower(q), W_under)
    \/ Contains(lower(q), W_below)
    \/ Contains(lower(q), W_less_than)

SaysOver(q) ==
    \/ Contains(lower(q), W_over)
    \/ Contains(lower(q), W_above)
    \/ Contains(lower(q), W_more_than)

\* C9: for a query with digits the fallback extractor sets exactly one price
\* bound, the value of the first digit run (in dollars): price_max if the
\* query says under/below/less than, else price_min if it says
\* over/above/more than, else price_max.  Without digits it sets neither,
\* and it never sets rating_min.  "Show me red dresses under $200" gives
\* exactly {color: red, category: dress, price_max: 200.0}.
C9_FallbackPriceBound ==
    pc = "fallback"
        => LET bound == IF SaysUnder(user_query) THEN "price_max"
                        ELSE IF SaysOver(user_query) THEN "price_min"
                        ELSE "price_max"
           IN  /\ "rating_min" \notin DOMAIN criteria
               /\ HasDigit(user_query)
                    => /\ (DOMAIN criteria) \cap {"price_max", "price_min"} = {bound}
                       /\ \E a, b \in 1..Len(user_query) :
                             /\ FirstDigitRun(user_query, a, b)
                             /\ criteria[bound] =
                                   JNum(100 * DigitsValue(SubSeq(user_query, a, b)))
               /\ ~HasDigit(user_query)
                    => (DOMAIN criteria) \cap {"price_max", "price_min"} = {}
               /\ user_query = Scenario5Query => criteria = Scenario5Criteria

C9_Witness ==
    /\ pc = "fallback"
    /\ user_query = JoinWords(<<W_under, <<"O","v","e","r">>, <<"5","0">>>>)
    /\ criteria = [price_max |-> JNum(5000)]

\* C10: the explanation of an empty result is the fixed "No products
\* found ..." message, whatever the criteria hold.
C10_EmptyResultMessage ==
    (pc = "explained" /\ Len(filtered_products) = 0)
        => explanation = <<NoProductsMessage>>

C10_Witness ==
    /\ pc = "explained"
    /\ df = TestCatalog
    /\ criteria = [category |-> JStr(W_dress), color |-> JStr(<<"b","l">>)]
    /\ filtered_products = <<>>
    /\ explanation = <<NoProductsMessage>>

\* C11: the explanation of a result of n >= 1 rows opens with the count and
\* the right noun: "Found 1 item" (not "Found 1 items") for n = 1 and
\* "Found n items" for n > 1; the count is followed by a full stop.
C11_CountNoun ==
    (pc = "explained" /\ Len(filtered_products) >= 1)
        => LET n == Len(filtered_products) IN
           /\ Len(explanation) >= 2
           /\ n = 1 => explanation[1] = "Found 1 item"
           /\ n > 1 => explanation[1] = "Found " \o ToString(n) \o " items"
           /\ explanation[2] \in {". ", "."}

C11_Witness ==
    /\ pc = "explained"
    /\ df = TestCatalog
    /\ criteria = [category |-> JStr(W_dress)]
    /\ filtered_products = <<1>>
    /\ explanation[1] = "Found 1 item"

(***************************************************************************)
(* C12.  The catalog and its statistics.                                   *)
(***************************************************************************)
Values(seq) == { seq[i] : i \in 1..Len(seq) }

Distinct(seq) == \A i, j \in 1..Len(seq) : seq[i] = seq[j] => i = j

\* st describes the whole of frame: its number of rows, each category and
\* each color of its rows once, and its lowest and highest price.
DescribesCatalog(st, frame) ==
    /\ st.total_products = Len(frame)
    /\ Values(st.categories) = { frame[i].category : i \in 1..Len(frame) }
    /\ Distinct(st.categories)
    /\ Values(st.colors) = { frame[i].color : i \in 1..Len(frame) }
    /\ Distinct(st.colors)
    /\ IF frame = <<>>
       THEN st.price_range.min.nan /\ st.price_range.max.nan
       ELSE /\ ~st.price_range.min.nan
            /\ ~st.price_range.max.nan
            /\ \E i \in 1..Len(frame) : frame[i].price = st.price_range.min.v
            /\ \E i \in 1..Len(frame) : frame[i].price = st.price_range.max.v
            /\ \A i \in 1..Len(frame) :
                  /\ st.price_range.min.v <= frame[i].price
                  /\ frame[i].price <= st.price_range.max.v

\* C12: no call of filter_products, load_products, get_product_stats or
\* generate_recommendation_explanation, with any criteria and after any
\* earlier calls, changes the catalog the ProductFilter holds (same rows,
\* same order, same values), and what get_product_stats returns is the row
\* count, the distinct categories and colors and the lowest and highest
\* price of that whole catalog.
C12_CatalogUnchanged ==
    [][ /\ df' = df
        /\ pc' = "stats" => DescribesCatalog(stats', df) ]_vars

C12_Witness ==
    /\ pc = "stats"
    /\ df = TestCatalog
    /\ criteria = [category |-> JStr(W_dress)]
    /\ filtered_products = <<1>>
    /\ explanation # <<>>
    /\ products = <<1, 2, 3>>
    /\ stats.total_products = 3
    /\ stats.categories = <<W_dress, W_jeans, W_jacket>>
    /\ stats.price_range.min = Number(8999)
    /\ stats.price_range.max = Number(29999)

(***************************************************************************)
(* C13.  The search history of a session.                                  *)
(***************************************************************************)
\* C13: after every search of a session the history holds at most 5 queries
\* and no query twice; a query that was processed without an exception and
\* was not in the history is now its first entry, followed by the earlier
\* entries in their order (as many as fit); a query that was already in the
\* history leaves it as it was.
C13_SearchHistory ==
    [][ LET was == search_history
            now == search_history'
            q == user_query'
            present == \E i \in 1..Len(was) : was[i] = q
        IN  /\ Len(now) <= 5
            /\ Distinct(now)
            /\ (error' = "none" /\ ~present) =>
                  /\ now # <<>>
                  /\ now[1] = q
                  /\ Len(now) = IF Len(was) < 5 THEN Len(was) + 1 ELSE 5
                  /\ \A i \in 2..Len(now) : now[i] = was[i - 1]
            /\ present => now = was ]_vars

C13_Witness ==
    /\ pc = "searched"
    /\ error = "none"
    /\ user_query = W_jacket
    /\ search_history = <<W_jacket, W_jeans, W_dress, W_black, W_blue>>

====
